---- MODULE Spec2Model ----
(***************************************************************************)
(* A model of src/pp.py, the receipt-scanning expense tracker.             *)
(*                                                                         *)
(* Two parts of the script are modelled, under three specifications:        *)
(*                                                                         *)
(*   Spec        one call of extract_amount_from_image (lines 25-69):      *)
(*               OCR, the optional Gemini call, the regex fallback.        *)
(*   SpecLedger  page interactions (script runs, lines 76-122) of two      *)
(*               browser sessions over the one backing file expenses.csv.  *)
(*   SpecSingleUser  the same page interactions, one session only.         *)
(*                                                                         *)
(* Text is a sequence of one-character strings.  An amount (a Python       *)
(* float) is an integer number of hundredths; None is the value None.      *)
(***************************************************************************)
EXTENDS Integers, Sequences, FiniteSets, TLC

VARIABLES
    use_gemini,   \* line 14-18: whether the Gemini capability is configured
    image,        \* the uploaded image, as what Tesseract makes of it
    reply,        \* what the Gemini call did, once it was made
    full_text,    \* line 59
    amounts,      \* line 31: the list re.findall returned, once it ran
    amount,       \* line 62-67
    xpc,          \* where extract_amount_from_image stands
    file,         \* the backing file expenses.csv: NoFile or its rows
    strict_dates, \* the installed pandas' date parsing (see read_csv)
    pc,           \* per session: where its script run stands
    data,         \* per session: the DataFrame `data`
    base,         \* per session: what load_data returned in this run
    form          \* per session: the form's widget values in this run

xvars == <<use_gemini, image, reply, full_text, amounts, amount, xpc>>
lvars == <<file, strict_dates, pc, data, base, form>>
vars == <<use_gemini, image, reply, full_text, amounts, amount, xpc,
          file, strict_dates, pc, data, base, form>>

(***************************************************************************)
(* Bounds of the model.                                                    *)
(***************************************************************************)
MaxTextLen == 5
MaxReplyLen == 2
MaxRecords == 2

(***************************************************************************)
(* Characters and texts.                                                   *)
(***************************************************************************)
Digits == {"0", "1", "2", "3", "4", "5", "6", "7", "8", "9"}

IsDigit(c) == c \in Digits

DigitVal(c) ==
    CASE c = "0" -> 0 [] c = "1" -> 1 [] c = "2" -> 2 [] c = "3" -> 3
      [] c = "4" -> 4 [] c = "5" -> 5 [] c = "6" -> 6 [] c = "7" -> 7
      [] c = "8" -> 8 [] c = "9" -> 9

\* The characters the enumerated texts are made of: a zero, a non-zero digit,
\* the decimal point, and a character that is neither.
Alphabet == {"0", "1", ".", "x"}

RECURSIVE SeqsUpTo(_, _)
SeqsUpTo(S, n) ==
    IF n = 0 THEN {<<>>}
    ELSE LET shorter == SeqsUpTo(S, n - 1)
         IN shorter \cup {Append(s, c) : s \in shorter, c \in S}

\* "Subtotal 10.00 Tax 1.50 Total 11.50", "Total 12.345", "1,234.56",
\* "thank you", "12.3.45" with the words shortened to their first letter.
ExampleTexts ==
    { <<"S", " ", "1", "0", ".", "0", "0", " ", "T", " ", "1", ".", "5", "0",
        " ", "T", " ", "1", "1", ".", "5", "0">>,
      <<"T", " ", "1", "2", ".", "3", "4", "5">>,
      <<"1", ",", "2", "3", "4", ".", "5", "6">>,
      <<"t", " ", "y">>,
      <<"1", "2", ".", "3", ".", "4", "5">> }

Texts == SeqsUpTo(Alphabet, MaxTextLen) \cup ExampleTexts

\* Replies of the model: "11.50", " 11.50 " (padded), "0.00", "Rs 9 or 10.00".
ExampleReplies ==
    { <<"1", "1", ".", "5", "0">>,
      <<" ", "1", "1", ".", "5", "0", "\n">>,
      <<"0", ".", "0", "0">>,
      <<"R", "s", " ", "9", " ", "o", "r", " ", "1", "0", ".", "0", "0">> }

Replies == SeqsUpTo(Alphabet, MaxReplyLen) \cup ExampleReplies

(***************************************************************************)
(* Python values.                                                          *)
(***************************************************************************)
\* None, among amounts in hundredths (which are >= 0).
None == -1

\* `not amount`: None and 0.0 are both falsy.
Falsy(a) == a = None \/ a = 0

\* The outcome of a call: a returned value, or an exception leaving it.
Return(v) == [raised |-> FALSE, value |-> v]
Raise == [raised |-> TRUE, value |-> None]

(***************************************************************************)
(* The regular expression \d+\.\d{2}|\d+  (lines 31 and 50).               *)
(***************************************************************************)
RECURSIVE DigitRun(_, _)
\* The length of the run of digits of text that starts at position i.
DigitRun(text, i) ==
    IF i > Len(text) \/ ~IsDigit(text[i]) THEN 0
    ELSE 1 + DigitRun(text, i + 1)

SetMax(S) == CHOOSE m \in S : \A k \in S : k <= m

\* The pattern with its alternatives in the other order, \d+|\d+\.\d{2}:
\* the bare run of digits always wins.
MatchAt_IntFirst(text, i) == DigitRun(text, i)

\* The length of the pattern's match anchored at position i, 0 for none.
\* First alternative: \d+ takes the longest run it can and gives digits back
\* until "." and two digits follow; otherwise the second alternative, \d+.
MatchAt(text, i) ==
    LET n == DigitRun(text, i)
        dec == { k \in 1..n : /\ i + k + 2 <= Len(text)
                              /\ text[i + k] = "."
                              /\ IsDigit(text[i + k + 1])
                              /\ IsDigit(text[i + k + 2]) }
    IN IF dec # {} THEN SetMax(dec) + 3 ELSE n

RECURSIVE Scan(_, _)
\* The spans <<first, last>> of the non-overlapping matches found scanning
\* text from position pos on, leftmost first.
Scan(text, pos) ==
    IF pos > Len(text) THEN <<>>
    ELSE LET m == MatchAt(text, pos)
         IN IF m > 0 THEN <<(<<pos, pos + m - 1>>)>> \o Scan(text, pos + m)
            ELSE Scan(text, pos + 1)

\* re.findall(pattern, text): the matched substrings, in scan order.
re_findall(text) ==
    LET spans == Scan(text, 1)
    IN [k \in 1..Len(spans) |-> SubSeq(text, spans[k][1], spans[k][2])]

RECURSIVE SearchFrom(_, _)
SearchFrom(text, pos) ==
    IF pos > Len(text) THEN <<>>
    ELSE LET m == MatchAt(text, pos)
         IN IF m > 0 THEN <<SubSeq(text, pos, pos + m - 1)>>
            ELSE SearchFrom(text, pos + 1)

\* re.search(pattern, text): <<group>> of the leftmost match, <<>> for None.
re_search(text) == SearchFrom(text, 1)

RECURSIVE IntVal(_)
\* The number a run of digits denotes.
IntVal(ds) ==
    IF ds = <<>> THEN 0
    ELSE 10 * IntVal(SubSeq(ds, 1, Len(ds) - 1)) + DigitVal(ds[Len(ds)])

\* float(token), in hundredths, of a token of the pattern: digits, or digits
\* "." and two digits.
float(tok) ==
    LET dots == { k \in 1..Len(tok) : tok[k] = "." }
    IN IF dots = {} THEN 100 * IntVal(tok)
       ELSE LET d == SetMax(dots)
            IN 100 * IntVal(SubSeq(tok, 1, d - 1))
               + 10 * DigitVal(tok[d + 1]) + DigitVal(tok[d + 2])

WhiteSpace == {" ", "\n", "\t"}

RECURSIVE strip(_)
\* str.strip(): leading and trailing whitespace removed.
strip(s) ==
    IF s = <<>> THEN s
    ELSE IF s[1] \in WhiteSpace THEN strip(Tail(s))
    ELSE IF s[Len(s)] \in WhiteSpace THEN strip(SubSeq(s, 1, Len(s) - 1))
    ELSE s

(***************************************************************************)
(* The functions of lines 25-55.                                           *)
(***************************************************************************)
\* An image is what pytesseract.image_to_string does on it: the text it
\* recognizes, or an exception (TesseractError, a missing engine).
Images ==
    { [raises |-> FALSE, text |-> t] : t \in Texts }
        \cup { [raises |-> TRUE, text |-> <<>>] }

\* Line 25-27: no handler around the engine's call.
extract_text_from_image(img) ==
    IF img.raises THEN [raised |-> TRUE, value |-> <<>>]
    ELSE [raised |-> FALSE, value |-> img.text]

\* amounts[0] in place of amounts[-1].
parse_amount_with_regex_first(text) ==
    LET found == re_findall(text)
    IN IF found # <<>> THEN float(found[1]) ELSE None

\* Line 29-34.
parse_amount_with_regex(text) ==
    LET found == re_findall(text)
    IN IF found # <<>> THEN float(found[Len(found)]) ELSE None

\* What model.generate_content does: raises, or answers a text.
GeminiOutcomes ==
    { [state |-> "raised", text |-> <<>>] }
        \cup { [state |-> "text", text |-> r] : r \in Replies }

NotCalled == [state |-> "none", text |-> <<>>]

\* Line 36-55 without its try/except.
parse_amount_with_gemini_unguarded(outcome) ==
    IF outcome.state = "raised" THEN Raise
    ELSE LET match == re_search(strip(outcome.text))
         IN IF match # <<>> THEN Return(float(match[1])) ELSE Return(None)

\* Line 36-55: the exception of the call is caught (line 53) and None returned.
parse_amount_with_gemini(outcome) ==
    IF outcome.state = "raised" THEN Return(None)
    ELSE LET match == re_search(strip(outcome.text))
         IN IF match # <<>> THEN Return(float(match[1])) ELSE Return(None)

(***************************************************************************)
(* extract_amount_from_image, lines 57-69, one action per statement.       *)
(***************************************************************************)
InitExtract ==
    /\ use_gemini \in BOOLEAN
    /\ image \in Images
    /\ reply = NotCalled
    /\ full_text = <<>>
    /\ amounts = <<>>
    /\ amount = None
    /\ xpc = "ocr"

\* Line 59: full_text = extract_text_from_image(image); an exception of the
\* callee leaves extract_amount_from_image as well.
ExtractText ==
    /\ xpc = "ocr"
    /\ LET r == extract_text_from_image(image)
       IN IF r.raised
          THEN xpc' = "raised" /\ UNCHANGED full_text
          ELSE xpc' = "gemini" /\ full_text' = r.value
    /\ UNCHANGED <<use_gemini, image, reply, amounts, amount>>

\* Line 62-64 with use_gemini set.
CallGemini ==
    /\ xpc = "gemini"
    /\ use_gemini
    /\ \E o \in GeminiOutcomes :
          /\ reply' = o
          /\ LET r == parse_amount_with_gemini(o)
             IN IF r.raised
                THEN xpc' = "raised" /\ amount' = None
                ELSE xpc' = "fallback" /\ amount' = r.value
    /\ UNCHANGED <<use_gemini, image, full_text, amounts>>

\* Line 62-63 with use_gemini unset.
SkipGemini ==
    /\ xpc = "gemini"
    /\ ~use_gemini
    /\ amount' = None
    /\ xpc' = "fallback"
    /\ UNCHANGED <<use_gemini, image, reply, full_text, amounts>>

\* Line 66-67 taken: amount = parse_amount_with_regex(full_text).  amounts
\* is the callee's local list, <<list>> once it exists.
Fallback ==
    /\ xpc = "fallback"
    /\ Falsy(amount)
    /\ amounts' = <<re_findall(full_text)>>
    /\ amount' = parse_amount_with_regex(full_text)
    /\ xpc' = "done"
    /\ UNCHANGED <<use_gemini, image, reply, full_text>>

\* Line 66 not taken, line 69.
KeepAmount ==
    /\ xpc = "fallback"
    /\ ~Falsy(amount)
    /\ xpc' = "done"
    /\ UNCHANGED <<use_gemini, image, reply, full_text, amounts, amount>>

(***************************************************************************)
(* The ledger: the DataFrame `data` and the file expenses.csv.             *)
(***************************************************************************)
Sessions == {"A", "B"}

\* Line 107.
Categories == {"Food", "Travel", "Shopping", "Bills", "Other"}

\* What the user enters in the form: a date (a day number), a category of
\* the select box, an amount >= 0 (min_value, line 110) in hundredths.
FormInputs ==
    { [Date |-> 1, Category |-> "Food", Amount |-> 1205],
      [Date |-> 2, Category |-> "Travel", Amount |-> 50],
      [Date |-> 2, Category |-> "Bills", Amount |-> 1150],
      [Date |-> 1, Category |-> "Shopping", Amount |-> 0],
      [Date |-> 2, Category |-> "Other", Amount |-> 0] }

NotSubmitted == [submitted |-> FALSE, Date |-> 1, Category |-> "Food", Amount |-> 0]

NoFile == [exists |-> FALSE, rows |-> <<>>]

DigitChar(n) ==
    CASE n = 0 -> "0" [] n = 1 -> "1" [] n = 2 -> "2" [] n = 3 -> "3"
      [] n = 4 -> "4" [] n = 5 -> "5" [] n = 6 -> "6" [] n = 7 -> "7"
      [] n = 8 -> "8" [] n = 9 -> "9"

RECURSIVE IntStr(_)
IntStr(n) ==
    IF n < 10 THEN <<DigitChar(n)>>
    ELSE IntStr(n \div 10) \o <<DigitChar(n % 10)>>

\* One fractional digit written, whatever the amount.
float_repr_one_digit(c) ==
    IntStr(c \div 100) \o <<".">> \o <<DigitChar((c % 100) \div 10)>>

\* How to_csv writes a float of the Amount column: the shortest text that
\* reads back to it (12.05, 11.5, 12.0).
float_repr(c) ==
    IntStr(c \div 100) \o <<".">> \o
        (IF c % 10 = 0 THEN <<DigitChar((c % 100) \div 10)>>
         ELSE <<DigitChar((c % 100) \div 10), DigitChar(c % 10)>>)

\* How read_csv reads a cell of the Amount column.
parse_float(cell) ==
    LET dots == { k \in 1..Len(cell) : cell[k] = "." }
    IN IF dots = {} THEN 100 * IntVal(cell)
       ELSE LET d == SetMax(dots)
                frac == SubSeq(cell, d + 1, Len(cell))
            IN 100 * IntVal(SubSeq(cell, 1, d - 1))
               + (IF Len(frac) = 0 THEN 0
                  ELSE IF Len(frac) = 1 THEN 10 * DigitVal(frac[1])
                  ELSE 10 * DigitVal(frac[1]) + DigitVal(frac[2]))

\* A value of the Date column in memory: a datetime.date (from the form), a
\* Timestamp (parsed by read_csv) or a str (a cell read_csv left as text).
\* A cell of the file: the day, with or without " 00:00:00" after it.
date_cell(d) ==
    CASE d.kind = "date" -> [day |-> d.day, time |-> FALSE]
      [] d.kind = "Timestamp" -> [day |-> d.day, time |-> TRUE]
      [] d.kind = "str" -> [day |-> d.day, time |-> d.time]

\* DataFrame.to_csv(index=False): one row of text per record, in order.
to_csv(df) ==
    [i \in 1..Len(df) |->
        [Date |-> date_cell(df[i].Date),
         Category |-> df[i].Category,
         Amount |-> float_repr(df[i].Amount)]]

\* pd.read_csv(parse_dates=["Date"]).  Before pandas 2.0 every cell of the
\* Date column is parsed on its own; from 2.0 on the column is parsed with
\* the format of its first cell and left as text when a cell does not fit.
read_csv(rows) ==
    LET fits == \A i \in 1..Len(rows) : rows[i].Date.time = rows[1].Date.time
        parsed(c) == IF strict_dates /\ ~fits
                     THEN [kind |-> "str", day |-> c.day, time |-> c.time]
                     ELSE [kind |-> "Timestamp", day |-> c.day, time |-> FALSE]
    IN [i \in 1..Len(rows) |->
          [Date |-> parsed(rows[i].Date),
           Category |-> rows[i].Category,
           Amount |-> parse_float(rows[i].Amount)]]

\* Line 78-82: the file's records, or an empty DataFrame when it is missing.
load_data == IF file.exists THEN read_csv(file.rows) ELSE <<>>

\* A save that reads the file again and appends only the new record to it.
save_data_merging(df) ==
    [exists |-> TRUE, rows |-> to_csv(load_data \o <<df[Len(df)]>>)]

\* Line 84-85: the whole file is overwritten.
save_data(df) == [exists |-> TRUE, rows |-> to_csv(df)]

\* Line 117-119: the one-row DataFrame of the form's values.
new_data(f) ==
    [Date |-> [kind |-> "date", day |-> f.Date, time |-> FALSE],
     Category |-> f.Category,
     Amount |-> f.Amount]

\* The new row put first.
concat_new_first(df, row) == <<row>> \o df

\* Line 120: pd.concat([data, new_data], ignore_index=True).
concat(df, row) == df \o <<row>>

\* amount >= 0 in place of amount > 0.
should_add_zero(f) == f.submitted /\ f.Amount >= 0

\* Line 116.
should_add(f) == f.submitted /\ f.Amount > 0

InitLedger ==
    /\ file = NoFile
    /\ strict_dates \in BOOLEAN
    /\ pc = [s \in Sessions |-> "idle"]
    /\ data = [s \in Sessions |-> <<>>]
    /\ base = [s \in Sessions |-> <<>>]
    /\ form = [s \in Sessions |-> NotSubmitted]

\* A script run starts; line 87: data = load_data().
Load(s) ==
    /\ pc[s] = "idle"
    /\ data' = [data EXCEPT ![s] = load_data]
    /\ base' = [base EXCEPT ![s] = load_data]
    /\ pc' = [pc EXCEPT ![s] = "form"]
    /\ UNCHANGED <<file, strict_dates, form>>

\* Line 96-98 with an image on which the OCR engine fails: the exception
\* leaves extract_amount_from_image and ends the script run.
ScanRaises(s) ==
    /\ pc[s] = "form"
    /\ pc' = [pc EXCEPT ![s] = "idle"]
    /\ data' = [data EXCEPT ![s] = <<>>]
    /\ base' = [base EXCEPT ![s] = <<>>]
    /\ UNCHANGED <<file, strict_dates, form>>

\* Line 105-122 in a run the form's button started.  The amount is the
\* user's: the scanned amount is only the field's default (line 111).
Submit(s) ==
    /\ pc[s] = "form"
    /\ Len(data[s]) < MaxRecords
    /\ \E input \in FormInputs :
          LET f == [submitted |-> TRUE, Date |-> input.Date,
                    Category |-> input.Category, Amount |-> input.Amount]
          IN /\ form' = [form EXCEPT ![s] = f]
             /\ IF should_add(f)
                THEN /\ data' = [data EXCEPT ![s] = concat(data[s], new_data(f))]
                     /\ file' = save_data(data'[s])
                     /\ pc' = [pc EXCEPT ![s] = "added"]
                ELSE /\ UNCHANGED <<data, file>>
                     /\ pc' = [pc EXCEPT ![s] = "shown"]
    /\ UNCHANGED <<strict_dates, base>>

\* Line 105-116 in a run something else started (the page opened, an image
\* was given): submitted is False.
NoSubmit(s) ==
    /\ pc[s] = "form"
    /\ form' = [form EXCEPT ![s] = NotSubmitted]
    /\ pc' = [pc EXCEPT ![s] = "shown"]
    /\ UNCHANGED <<file, strict_dates, data, base>>

\* Line 124-148: the dashboard is drawn and the run ends; the next run
\* starts with fresh globals.
Finish(s) ==
    /\ pc[s] \in {"added", "shown"}
    /\ pc' = [pc EXCEPT ![s] = "idle"]
    /\ data' = [data EXCEPT ![s] = <<>>]
    /\ base' = [base EXCEPT ![s] = <<>>]
    /\ form' = [form EXCEPT ![s] = NotSubmitted]
    /\ UNCHANGED <<file, strict_dates>>

(***************************************************************************)
(* Specifications.                                                         *)
(***************************************************************************)
\* One call of extract_amount_from_image; the ledger is not touched.
Init ==
    /\ InitExtract
    /\ file = NoFile
    /\ strict_dates = FALSE
    /\ pc = [s \in Sessions |-> "idle"]
    /\ data = [s \in Sessions |-> <<>>]
    /\ base = [s \in Sessions |-> <<>>]
    /\ form = [s \in Sessions |-> NotSubmitted]

Next ==
    \/ ExtractText /\ UNCHANGED lvars
    \/ CallGemini /\ UNCHANGED lvars
    \/ SkipGemini /\ UNCHANGED lvars
    \/ Fallback /\ UNCHANGED lvars
    \/ KeepAmount /\ UNCHANGED lvars

Spec == Init /\ [][Next]_vars

\* Page interactions of the sessions; no amount extraction in progress.
InitPages ==
    /\ InitLedger
    /\ use_gemini = FALSE
    /\ image = [raises |-> FALSE, text |-> <<>>]
    /\ reply = NotCalled
    /\ full_text = <<>>
    /\ amounts = <<>>
    /\ amount = None
    /\ xpc = "ocr"

Run(s) ==
    \/ Load(s) /\ UNCHANGED xvars
    \/ ScanRaises(s) /\ UNCHANGED xvars
    \/ Submit(s) /\ UNCHANGED xvars
    \/ NoSubmit(s) /\ UNCHANGED xvars
    \/ Finish(s) /\ UNCHANGED xvars

NextLedger == \E s \in Sessions : Run(s)

SpecLedger == InitPages /\ [][NextLedger]_vars

NextSingleUser == Run("A")

SpecSingleUser == InitPages /\ [][NextSingleUser]_vars

(***************************************************************************)
(* What the claims are stated with.                                        *)
(***************************************************************************)
HasDigit(t) == \E p \in 1..Len(t) : IsDigit(t[p])

AllDigits(t, a, b) == \A p \in a..b : IsDigit(t[p])

SetMin(S) == CHOOSE m \in S : \A k \in S : m <= k

\* t[a..b] is digits, ".", two digits.
IsDecimalToken(t, a, b) ==
    /\ b - a >= 3
    /\ AllDigits(t, a, b - 3)
    /\ t[b - 2] = "."
    /\ IsDigit(t[b - 1])
    /\ IsDigit(t[b])

\* t[a..b] is a whole run of digits that "." and two digits do not follow.
IsIntegerToken(t, a, b) ==
    /\ a <= b
    /\ AllDigits(t, a, b)
    /\ (b = Len(t) \/ ~IsDigit(t[b + 1]))
    /\ ~(b + 3 <= Len(t) /\ t[b + 1] = "." /\ IsDigit(t[b + 2]) /\ IsDigit(t[b + 3]))

\* spans are the non-overlapping matches of the pattern in t, left to right:
\* each is a token, each lies after the one before, no digit is left out.
IsScanOf(t, spans) ==
    /\ \A k \in 1..Len(spans) :
          \/ IsDecimalToken(t, spans[k][1], spans[k][2])
          \/ IsIntegerToken(t, spans[k][1], spans[k][2])
    /\ \A k \in 1..(Len(spans) - 1) : spans[k][2] < spans[k + 1][1]
    /\ \A p \in 1..Len(t) :
          IsDigit(t[p]) => \E k \in 1..Len(spans) : spans[k][1] <= p /\ p <= spans[k][2]

SubtotalTaxTotal ==
    <<"S", " ", "1", "0", ".", "0", "0", " ", "T", " ", "1", ".", "5", "0",
      " ", "T", " ", "1", "1", ".", "5", "0">>

Total12345 == <<"T", " ", "1", "2", ".", "3", "4", "5">>

\* The text's digits and one "." are one run with three or more digits after
\* the ".", and the text holds no other digit.
IsLongFraction(t) ==
    /\ HasDigit(t)
    /\ LET ds == { p \in 1..Len(t) : IsDigit(t[p]) }
           a == SetMin(ds)
           e == SetMax(ds)
           dots == { p \in a..e : t[p] = "." }
       IN /\ Cardinality(dots) = 1
          /\ \A p \in a..e : IsDigit(t[p]) \/ p \in dots
          /\ e - SetMax(dots) >= 3

FirstDigit(t) == SetMin({ p \in 1..Len(t) : IsDigit(t[p]) })
LastDigit(t) == SetMax({ p \in 1..Len(t) : IsDigit(t[p]) })
DotOf(t) == SetMin({ p \in FirstDigit(t)..LastDigit(t) : t[p] = "." })

\* Of a long fraction: digits "." and the first two fractional digits.
WellFormedPrefix(t) == SubSeq(t, FirstDigit(t), DotOf(t) + 2)

\* Of a long fraction: the digits after the second fractional digit.
DigitsBeyond(t) == SubSeq(t, DotOf(t) + 3, LastDigit(t))

\* The calendar date, category and amount of each record of a DataFrame.
Values(df) ==
    [i \in 1..Len(df) |->
        [Date |-> df[i].Date.day, Category |-> df[i].Category, Amount |-> df[i].Amount]]

\* The ledger a file holds.
FileLedger(f) == IF f.exists THEN Values(read_csv(f.rows)) ELSE <<>>

FormRecord(f) == [Date |-> f.Date, Category |-> f.Category, Amount |-> f.Amount]

IsPrefix(p, q) == Len(p) <= Len(q) /\ SubSeq(q, 1, Len(p)) = p

(***************************************************************************)
(* The claims.                                                             *)
(***************************************************************************)
\* C1: with Gemini enabled and a reply holding exactly one numeric token,
\* extract_amount_from_image returns that token's value, whatever the text
\* and whatever the token (0 and 0.00 included).
C1_ReplyTokenIsResult ==
    (xpc = "done" /\ use_gemini /\ reply.state = "text"
        /\ Len(re_findall(reply.text)) = 1)
    => amount = float(re_findall(reply.text)[1])

\* C2: on a text with a numeric token parse_amount_with_regex returns the
\* value of the last of the pattern's non-overlapping matches, taken left to
\* right; "Subtotal 10.00 Tax 1.50 Total 11.50" gives 11.50.
C2_FallbackReturnsLastToken ==
    (xpc = "done" /\ amounts # <<>> /\ HasDigit(full_text))
    => LET spans == Scan(full_text, 1)
           last == spans[Len(spans)]
       IN /\ IsScanOf(full_text, spans)
          /\ Len(spans) >= 1
          /\ Len(amounts[1]) = Len(spans)
          /\ amounts[1][Len(spans)] = SubSeq(full_text, last[1], last[2])
          /\ amount = float(SubSeq(full_text, last[1], last[2]))
          /\ (full_text = SubtotalTaxTotal => amount = 1150)

C2_Witness ==
    /\ xpc = "done"
    /\ full_text = SubtotalTaxTotal
    /\ amounts # <<>>
    /\ Len(amounts[1]) = 3
    /\ amount = 1150

\* C3: with Gemini enabled and its call raising, the exception does not
\* leave extract_amount_from_image, and the result is what
\* parse_amount_with_regex returns on the same text.
C3_GeminiFailureFallsBack ==
    (use_gemini /\ reply.state = "raised")
    => /\ xpc # "raised"
       /\ xpc = "done" =>
            /\ amounts # <<>>
            /\ amount = parse_amount_with_regex(full_text)

C3_Witness ==
    /\ xpc = "done"
    /\ use_gemini
    /\ reply.state = "raised"
    /\ full_text = Total12345
    /\ amount = 500

\* C4: extract_amount_from_image never raises to its caller, a failure of
\* the OCR engine included.
C4_NeverRaises == xpc # "raised"

\* C5: the result is None exactly when neither path finds a numeric token:
\* none in the recognized text, and Gemini absent, failing or answering
\* without one.
C5_NoneIffNoToken ==
    xpc = "done"
    => (amount = None
        <=> /\ ~HasDigit(full_text)
            /\ (~use_gemini \/ reply.state = "raised" \/ ~HasDigit(reply.text)))

\* C6, as stated: on a text whose only number-like run has more than two
\* fractional digits, the fallback finds the well-formed prefix only and
\* returns it; the digits beyond are no token and are not returned.
C6_OnlyPrefixIsToken ==
    (xpc = "done" /\ amounts # <<>> /\ IsLongFraction(full_text))
    => /\ amounts[1] = <<WellFormedPrefix(full_text)>>
       /\ amount = float(WellFormedPrefix(full_text))

\* C6, amended: on such a text the fallback finds two tokens, the
\* well-formed prefix and then the digits beyond the second fractional
\* digit, and returns the value of the latter ("Total 12.345" gives 5).
C6_DigitsBeyondAreReturned ==
    (xpc = "done" /\ amounts # <<>> /\ IsLongFraction(full_text))
    => /\ amounts[1] = <<WellFormedPrefix(full_text), DigitsBeyond(full_text)>>
       /\ amount = float(DigitsBeyond(full_text))
       /\ (full_text = Total12345 => amount = 500)

C6_Witness ==
    /\ xpc = "done"
    /\ ~use_gemini
    /\ full_text = Total12345
    /\ amounts = << <<(<<"1", "2", ".", "3", "4">>), (<<"5">>)>> >>
    /\ amount = 500

\* C7: with one user, every step leaves the file's ledger a prefix of the
\* new one, longer by at most one record; a step that writes the file
\* writes the ledger loaded at the start of the interaction followed by the
\* record just confirmed.
C7_AppendOnly ==
    [][ /\ IsPrefix(FileLedger(file), FileLedger(file'))
        /\ Len(FileLedger(file')) <= Len(FileLedger(file)) + 1
        /\ file' # file =>
             \E s \in Sessions :
                /\ pc[s] = "form"
                /\ pc'[s] = "added"
                /\ FileLedger(file') = Values(base[s]) \o <<FormRecord(form'[s])>> ]_vars

C7_Witness ==
    /\ pc["A"] = "added"
    /\ Len(base["A"]) = 1
    /\ FileLedger(file) = Values(base["A"]) \o <<FormRecord(form["A"])>>
    /\ FormRecord(form["A"]) # Values(base["A"])[1]

\* C8: the ledger just saved reads back with as many records, in the same
\* order, each with the same date, category and amount.
C8_RoundTrip ==
    \A s \in Sessions :
        pc[s] = "added"
        => /\ file = save_data(data[s])
           /\ Len(load_data) = Len(data[s])
           /\ Values(load_data) = Values(data[s])

C8_Witness ==
    /\ pc["A"] = "added"
    /\ strict_dates
    /\ Len(data["A"]) = 2
    /\ data["A"][1].Date.kind = "Timestamp"
    /\ data["A"][2].Amount = 1205
    /\ load_data[1].Date.kind = "str"
    /\ Values(load_data) = Values(data["A"])

\* C9: two interactions that both loaded the same ledger and both reported
\* success leave a file with one record more than they loaded: the last
\* writer's ledger, without the other's record.
C9_LostUpdate ==
    \A s \in Sessions : \A t \in Sessions \ {s} :
        (pc[s] = "added" /\ pc[t] = "added" /\ Values(base[s]) = Values(base[t]))
        => /\ Len(FileLedger(file)) = Len(base[s]) + 1
           /\ FileLedger(file) \in {Values(data[s]), Values(data[t])}

C9_Witness ==
    /\ pc["A"] = "added"
    /\ pc["B"] = "added"
    /\ Values(base["A"]) = Values(base["B"])
    /\ FormRecord(form["A"]) # FormRecord(form["B"])
    /\ FileLedger(file) = Values(data["B"])
    /\ \A i \in 1..Len(FileLedger(file)) : FileLedger(file)[i] # FormRecord(form["A"])

\* C10: a run of the form that is not a submission with amount > 0 changes
\* neither the file nor `data`; the file changes only in a submission with
\* amount > 0; every record of the file has amount > 0 and a category of
\* the select box.
C10_OnlyPositiveSubmissionsWrite ==
    /\ [](\A i \in 1..Len(FileLedger(file)) :
             /\ FileLedger(file)[i].Amount > 0
             /\ FileLedger(file)[i].Category \in Categories)
    /\ [][ \A s \in Sessions :
             (pc[s] = "form" /\ pc'[s] \in {"shown", "added"}
                 /\ ~(form'[s].submitted /\ form'[s].Amount > 0))
             => (file' = file /\ data'[s] = data[s]) ]_vars
    /\ [][ file' # file =>
             \E s \in Sessions :
                pc[s] = "form" /\ form'[s].submitted /\ form'[s].Amount > 0 ]_vars

C10_Witness ==
    /\ pc["A"] = "shown"
    /\ form["A"].submitted
    /\ form["A"].Amount = 0
    /\ file.exists
    /\ data["A"] = base["A"]
    /\ FileLedger(file) = Values(data["A"])

====
